---- MODULE Spec2Model ----
(***************************************************************************)
(* State machine of the try-rs interactive selector (src/src/tui.rs):      *)
(* App::new, App::update_search, App::delete_selected, the key handling    *)
(* and the list rows of run_app, and the command dispatch of main          *)
(* (src/src/main.rs).  Strings are sequences of one-character strings;     *)
(* Option<T> is the empty sequence (None) or a one-element sequence (Some).*)
(***************************************************************************)
EXTENDS Integers, Sequences, FiniteSets, TLC

VARIABLES query, all_entries, filtered_entries, selected_index, should_quit,
          final_selection, mode, status_message, editor_cmd, wants_editor,
          theme, disk, pc, returned, last, twin, frame, stdout

vars == <<query, all_entries, filtered_entries, selected_index, should_quit,
          final_selection, mode, status_message, editor_cmd, wants_editor,
          theme, disk, pc, returned, last, twin, frame, stdout>>

(* ---------------------------- bounds ----------------------------------- *)
MaxQuery == 2
MaxEntries == 3
\* widest list pane (content_chunks[0].width) a frame is drawn with
MaxWidth == 64

(* ------------------------- input universes ----------------------------- *)
\* characters the keyboard delivers as KeyCode::Char in Normal mode
KeyChars == {"a", "A", "b"}
\* directories that can be present under base_path when App::new scans it
Pool == { [name |-> <<"a", "b">>, modified |-> 3, markers |-> {"git", "cargo"}],
          [name |-> <<"b", "a">>, modified |-> 2, markers |-> {}],
          [name |-> <<"A", "b">>, modified |-> 2, markers |-> {"python"}],
          [name |-> <<"a", "a">>, modified |-> 1, markers |-> {"git"}] }
\* the project markers App::new probes for (is_git, is_mise, ...)
AllMarkers == {"git", "mise", "cargo", "maven", "flutter", "go", "python"}
\* the project markers the App::new of main.rs probes for
MainMarkers == {"git", "mise", "cargo"}
\* colour themes the caller can pass to App::new
Themes == {"default", "custom"}
\* error descriptions fs::remove_dir_all can return
IoErrors == {"Permission denied (os error 13)", "Directory not empty (os error 39)"}
EditorCmds == {<<>>, <<"code">>}
\* what terminal.draw reads besides the App: the width of the list pane and
\* SystemTime::now(), in days on the scale of TryEntry.modified
Frames == [width : 0..MaxWidth, now : {1, 103}]
DefaultFrame == [width |-> MaxWidth, now |-> 3]
base_path == "/tries"

None == <<>>
Some(x) == <<x>>

Max(a, b) == IF a >= b THEN a ELSE b
SatSub(a, b) == IF a >= b THEN a - b ELSE 0
Normal == "Normal"
DeleteConfirm == "DeleteConfirm"

(* ------------------- SkimMatcherV2 (fuzzy_matcher) --------------------- *)
score_match == 16
gap_start == -3
gap_extension == -1
bonus_first_char_multiplier == 2
bonus_head == score_match \div 2
bonus_break == score_match \div 2 + gap_extension
bonus_camel == score_match \div 2 + 2 * gap_extension
bonus_consecutive == -(gap_start + gap_extension)
penalty_case_mismatch == gap_extension * 2
MATRIX_CELL_NEG_INFINITY == -32768

IsUpperChar(c) == c \in {"A", "B", "Y", "N"}
ToLowerChar(c) == CASE c = "A" -> "a" [] c = "B" -> "b" [] c = "Y" -> "y"
                    [] c = "N" -> "n" [] OTHER -> c

contains_upper_always(s) == TRUE

\* SkimMatcherV2::contains_upper
contains_upper(s) == \E i \in 1..Len(s) : IsUpperChar(s[i])

\* util::char_equal
char_equal(a, b, case_sensitive) ==
    IF case_sensitive THEN a = b ELSE ToLowerChar(a) = ToLowerChar(b)

\* CharType::of, with "Empty" for the position before the first character
CharTypeOf(s, j) ==
    IF j = 0 THEN "Empty"
    ELSE IF s[j] \in {" ", "/"} THEN "HardSep"
    ELSE IF s[j] \in {"-", "_", "."} THEN "SoftSep"
    ELSE IF IsUpperChar(s[j]) THEN "Upper"
    ELSE "Lower"

\* CharRole::of_type followed by SkimMatcherV2::in_place_bonus
in_place_bonus(prev, cur) ==
    IF prev \in {"Empty", "HardSep"} THEN bonus_head
    ELSE IF prev = "SoftSep" THEN bonus_break
    ELSE IF prev \in {"Lower", "Number"} /\ cur = "Upper" THEN bonus_camel
    ELSE 0

\* SkimMatcherV2::build_in_place_bonus: B[j] for the j-th character (1-based)
InPlaceBonus(choice, j) ==
    LET b == in_place_bonus(CharTypeOf(choice, j - 1), CharTypeOf(choice, j))
    IN IF j = 1 THEN b * bonus_first_char_multiplier ELSE b

\* SkimMatcherV2::calculate_match_score, for characters already char_equal
calculate_match_score(c, p, case_sensitive) ==
    LET bonus == IF ~case_sensitive /\ p # c THEN penalty_case_mismatch ELSE 0
    IN Max(0, score_match + bonus)

cheap_matches_any(choice, pattern, case_sensitive) ==
    \E i \in 1..Len(pattern), j \in 1..Len(choice) :
        char_equal(choice[j], pattern[i], case_sensitive)

\* cheap_matches: the pattern is an ordered subsequence of the choice,
\* scanned greedily from the left
RECURSIVE cheap_matches(_, _, _)
cheap_matches(choice, pattern, case_sensitive) ==
    IF pattern = <<>> THEN TRUE
    ELSE IF choice = <<>> THEN FALSE
    ELSE IF char_equal(Head(choice), Head(pattern), case_sensitive)
         THEN cheap_matches(Tail(choice), Tail(pattern), case_sensitive)
         ELSE cheap_matches(Tail(choice), pattern, case_sensitive)

\* build_score_matrix: affine-gap alignment,
\*   M[i][j] = match(i,j) + max(M[i-1][j-1] + consecutive, P[i-1][j-1] + B[j])
\*   P[i][j] = max(gap_start + gap_extension + M[i][j-1], gap_extension + P[i][j-1])
ScoreMatrix(choice, pattern, case_sensitive) ==
    LET n == Len(choice)
        m == Len(pattern)
        cell[i \in 0..m, j \in 0..n] ==
            IF i = 0 THEN [m_score |-> 0, p_score |-> 0]
            ELSE IF j = 0 THEN [m_score |-> MATRIX_CELL_NEG_INFINITY,
                                p_score |-> MATRIX_CELL_NEG_INFINITY]
            ELSE
              LET prev == cell[i - 1, j - 1]
                  left == cell[i, j - 1]
                  b    == InPlaceBonus(choice, j)
                  consecutive == Max(b, bonus_consecutive)
                  ms == IF char_equal(choice[j], pattern[i], case_sensitive)
                        THEN calculate_match_score(choice[j], pattern[i], case_sensitive)
                             + Max(prev.m_score + consecutive, prev.p_score + b)
                        ELSE MATRIX_CELL_NEG_INFINITY
                  ps == Max(gap_start + gap_extension + left.m_score,
                            gap_extension + left.p_score)
              IN [m_score |-> ms, p_score |-> ps]
    IN cell

RECURSIVE MaxOver(_, _, _)
MaxOver(f, i, j) == IF j = 1 THEN f[i, 1].m_score
                    ELSE Max(f[i, j].m_score, MaxOver(f, i, j - 1))

\* SkimMatcherV2::fuzzy_match(choice, pattern): None, or Some(score)
fuzzy_match(choice, pattern) ==
    IF pattern = <<>> THEN Some(0)
    ELSE
      LET case_sensitive == contains_upper(pattern)
      IN IF ~cheap_matches(choice, pattern, case_sensitive) THEN None
         ELSE Some(MaxOver(ScoreMatrix(choice, pattern, case_sensitive),
                           Len(pattern), Len(choice)))

(* ------------------------------ entries -------------------------------- *)
\* TryEntry as built by App::new (score starts at 0)
TryEntry(d) == [name |-> d.name, modified |-> d.modified, score |-> 0,
                markers |-> d.markers]

Names(entries) == {entries[i].name : i \in 1..Len(entries)}
NameSeq(entries) == [i \in 1..Len(entries) |-> entries[i].name]

RECURSIVE InsertByModifiedAscending(_, _)
InsertByModifiedAscending(sorted, e) ==
    IF sorted = <<>> THEN <<e>>
    ELSE IF Head(sorted).modified <= e.modified
         THEN <<Head(sorted)>> \o InsertByModifiedAscending(Tail(sorted), e)
         ELSE <<e>> \o sorted

\* slice::sort_by with a descending comparison is stable: an element is placed
\* behind every element that does not compare lower than it
RECURSIVE InsertByModified(_, _)
InsertByModified(sorted, e) ==
    IF sorted = <<>> THEN <<e>>
    ELSE IF Head(sorted).modified >= e.modified
         THEN <<Head(sorted)>> \o InsertByModified(Tail(sorted), e)
         ELSE <<e>> \o sorted

RECURSIVE SortByModified(_)
SortByModified(entries) ==
    IF entries = <<>> THEN <<>>
    ELSE InsertByModified(SortByModified(SubSeq(entries, 1, Len(entries) - 1)),
                          entries[Len(entries)])

RECURSIVE InsertByScoreAscending(_, _)
InsertByScoreAscending(sorted, e) ==
    IF sorted = <<>> THEN <<e>>
    ELSE IF Head(sorted).score <= e.score
         THEN <<Head(sorted)>> \o InsertByScoreAscending(Tail(sorted), e)
         ELSE <<e>> \o sorted

RECURSIVE InsertByScoreTiesFirst(_, _)
InsertByScoreTiesFirst(sorted, e) ==
    IF sorted = <<>> THEN <<e>>
    ELSE IF Head(sorted).score > e.score
         THEN <<Head(sorted)>> \o InsertByScoreTiesFirst(Tail(sorted), e)
         ELSE <<e>> \o sorted

RECURSIVE InsertByScore(_, _)
InsertByScore(sorted, e) ==
    IF sorted = <<>> THEN <<e>>
    ELSE IF Head(sorted).score >= e.score
         THEN <<Head(sorted)>> \o InsertByScore(Tail(sorted), e)
         ELSE <<e>> \o sorted

RECURSIVE SortByScore(_)
SortByScore(entries) ==
    IF entries = <<>> THEN <<>>
    ELSE InsertByScore(SortByScore(SubSeq(entries, 1, Len(entries) - 1)),
                       entries[Len(entries)])

RECURSIVE FilterMapMarkerBonus(_, _)
FilterMapMarkerBonus(entries, q) ==
    IF entries = <<>> THEN <<>>
    ELSE LET r == fuzzy_match(Head(entries).name, q)
         IN (IF r = None THEN <<>>
             ELSE <<[Head(entries) EXCEPT
                       !.score = r[1] + 100 * Cardinality(Head(entries).markers)]>>)
            \o FilterMapMarkerBonus(Tail(entries), q)

\* the filter_map of update_search: matching entries, cloned with their score
RECURSIVE FilterMap(_, _)
FilterMap(entries, q) ==
    IF entries = <<>> THEN <<>>
    ELSE LET r == fuzzy_match(Head(entries).name, q)
         IN (IF r = None THEN <<>>
             ELSE <<[Head(entries) EXCEPT !.score = r[1]]>>)
            \o FilterMap(Tail(entries), q)

UpdateSearchAppending(entries, q) ==
    IF q = <<>> THEN entries
    ELSE filtered_entries \o SortByScore(FilterMap(entries, q))

UpdateSearchStale(entries, q) ==
    IF q = <<>> THEN filtered_entries
    ELSE SortByScore(FilterMap(entries, q))

\* App::update_search: the new filtered_entries (selected_index is reset by
\* the callers below, as the last statement of update_search does)
UpdateSearch(entries, q) ==
    IF q = <<>> THEN entries
    ELSE SortByScore(FilterMap(entries, q))

RetainKeepsAll(entries, entry_name) == entries

\* Vec::retain(|e| e.name != entry_name)
RECURSIVE Retain(_, _)
Retain(entries, entry_name) ==
    IF entries = <<>> THEN <<>>
    ELSE (IF Head(entries).name # entry_name THEN <<Head(entries)>> ELSE <<>>)
         \o Retain(Tail(entries), entry_name)

\* PathBuf::join followed by display()
PathDisplay(entry_name) == <<base_path, "/">> \o entry_name

(* ------------------------------- Init ---------------------------------- *)
\* the orders in which fs::read_dir can enumerate the directories present
Scans == UNION { { s \in [1..n -> Pool] :
                     \A i, j \in 1..n : i # j => s[i] # s[j] } : n \in 0..MaxEntries }

\* how the second App differs from the first: its colour theme, and the
\* project markers found in each directory
TwinVariants == { [markers |-> "flip", theme |-> "custom"],
                  [markers |-> "all", theme |-> "default"] }

\* the entries of the first App with other project markers
TwinEntries(entries, how, probed) ==
    [i \in 1..Len(entries) |->
        [entries[i] EXCEPT !.markers =
            CASE how = "flip" -> probed \ @
              [] how = "all" -> probed
              [] OTHER -> {}]]

\* App::new probing for the markers in probed, for a directory whose
\* enumeration is one of scans
AppNewProbing(scans, frames, probed) ==
    \E scan \in scans, ed \in EditorCmds, variant \in TwinVariants :
        /\ frame \in frames
        /\ stdout = <<>>
        /\ all_entries = SortByModified(
               [i \in 1..Len(scan) |->
                   [TryEntry(scan[i]) EXCEPT !.markers = @ \cap probed]])
        /\ filtered_entries = all_entries
        /\ disk = {scan[i].name : i \in 1..Len(scan)}
        /\ query = <<>>
        /\ selected_index = 0
        /\ should_quit = FALSE
        /\ final_selection = None
        /\ mode = Normal
        /\ status_message = None
        /\ editor_cmd = ed
        /\ wants_editor = FALSE
        /\ pc = "loop"
        /\ returned = None
        /\ last = [op |-> "new", rm |-> 0, target |-> None]
        /\ theme = "default"
        /\ twin = [query |-> <<>>,
                   all_entries |-> TwinEntries(all_entries, variant.markers, probed),
                   filtered_entries |-> TwinEntries(all_entries, variant.markers, probed),
                   selected_index |-> 0,
                   should_quit |-> FALSE,
                   final_selection |-> None,
                   mode |-> Normal,
                   status_message |-> None,
                   editor_cmd |-> ed,
                   wants_editor |-> FALSE,
                   theme |-> variant.theme]

\* App::new of tui.rs
AppNew(scans, frames) == AppNewProbing(scans, frames, AllMarkers)

\* App::new of main.rs, the one main() calls
MainAppNew(scans, frames) == AppNewProbing(scans, frames, MainMarkers)

Init == AppNew(Scans, {DefaultFrame})

\* a directory holding alpha, abc and zzz, enumerated in any order
ScenarioPool == { [name |-> <<"a", "l", "p", "h", "a">>, modified |-> 1, markers |-> {}],
                  [name |-> <<"a", "b", "c">>, modified |-> 1, markers |-> {"git"}],
                  [name |-> <<"z", "z", "z">>, modified |-> 1, markers |-> {}] }
ScenarioScans == { s \in [1..3 -> ScenarioPool] :
                     \A i, j \in 1..3 : i # j => s[i] # s[j] }
InitScenario == AppNew(ScenarioScans, {DefaultFrame})

\* a directory holding aba, bAb and Abb, enumerated in any order: names that
\* the queries of KeyChars match contiguously, with a gap, or only when
\* case is ignored
MatchPool == { [name |-> <<"a", "b", "a">>, modified |-> 1, markers |-> {}],
               [name |-> <<"b", "A", "b">>, modified |-> 1, markers |-> {"git"}],
               [name |-> <<"A", "b", "b">>, modified |-> 1, markers |-> {}] }
MatchScans == { s \in [1..3 -> MatchPool] :
                  \A i, j \in 1..3 : i # j => s[i] # s[j] }
InitMatch == AppNew(MatchScans, {DefaultFrame})

\* the alpha/abc/zzz directory or at most one directory of Pool, drawn at
\* any pane width
RowScans == ScenarioScans \cup {s \in Scans : Len(s) <= 1}
InitRow == AppNew(RowScans, Frames)

(* --------------------------- run_app: keys ----------------------------- *)
RunningIgnoringQuit == pc = "loop"

\* the loop body runs: while !app.should_quit
Running == pc = "loop" /\ ~should_quit

UpIndexToTop(idx) == 0

\* KeyCode::Up
UpIndex(idx) == IF idx > 0 THEN idx - 1 ELSE idx

DownIndexNoCeiling(idx, len) == idx + 1

\* KeyCode::Down
DownIndex(idx, len) == IF idx < SatSub(len, 1) THEN idx + 1 ELSE idx

EnterSelectionQueryFirst(filtered, idx, q) ==
    IF q # <<>> THEN Some(q)
    ELSE IF filtered # <<>> THEN Some(filtered[idx + 1].name)
    ELSE None

EnterSelectionNoQuery(filtered, idx, q) ==
    IF filtered # <<>> THEN Some(filtered[idx + 1].name)
    ELSE final_selection

EnterSelectionEmptyQuery(filtered, idx, q) ==
    IF filtered # <<>> THEN Some(filtered[idx + 1].name)
    ELSE Some(q)

\* KeyCode::Enter, the value final_selection has afterwards
EnterSelection(filtered, idx, q) ==
    IF filtered # <<>> THEN Some(filtered[idx + 1].name)
    ELSE IF q # <<>> THEN Some(q)
    ELSE final_selection

EnterQuitsOnSelection(filtered, q) == filtered # <<>> \/ q # <<>>

\* KeyCode::Enter, the value should_quit has afterwards
EnterQuits(filtered, q) == TRUE

PopAll(q) == <<>>

\* String::pop: drops the last character, an empty string stays empty
PopLast(q) == IF q = <<>> THEN q ELSE SubSeq(q, 1, Len(q) - 1)

\* The same key handling, applied to the record t of a second App (fields
\* as in App) that is given the same keys and the same removal outcomes:
\* key is the key pressed, c its character, outcome the removal result.
TwinStep(t, key, c, outcome) ==
    IF t.should_quit THEN t
    ELSE IF t.mode = Normal THEN
      CASE key = "CtrlC" -> [t EXCEPT !.should_quit = TRUE]
        [] key = "CtrlD" ->
             IF t.filtered_entries # <<>> THEN [t EXCEPT !.mode = DeleteConfirm] ELSE t
        [] key = "CtrlE" ->
             IF t.editor_cmd # None
             THEN IF t.filtered_entries # <<>>
                  THEN [t EXCEPT !.final_selection =
                                    Some(t.filtered_entries[t.selected_index + 1].name),
                                 !.wants_editor = TRUE, !.should_quit = TRUE]
                  ELSE IF t.query # <<>>
                  THEN [t EXCEPT !.final_selection = Some(t.query),
                                 !.wants_editor = TRUE, !.should_quit = TRUE]
                  ELSE t
             ELSE [t EXCEPT !.status_message =
                              Some(<<"No editor configured in config.toml">>)]
        [] key = "Char" ->
             [t EXCEPT !.query = Append(t.query, c),
                       !.status_message = None,
                       !.filtered_entries = UpdateSearch(t.all_entries, Append(t.query, c)),
                       !.selected_index = 0]
        [] key = "Backspace" ->
             [t EXCEPT !.query = PopLast(t.query),
                       !.filtered_entries = UpdateSearch(t.all_entries, PopLast(t.query)),
                       !.selected_index = 0]
        [] key = "Up" ->
             [t EXCEPT !.selected_index = IF @ > 0 THEN @ - 1 ELSE @]
        [] key = "Down" ->
             [t EXCEPT !.selected_index =
                         IF @ < SatSub(Len(t.filtered_entries), 1) THEN @ + 1 ELSE @]
        [] key = "Enter" ->
             [t EXCEPT !.final_selection =
                         IF t.filtered_entries # <<>>
                         THEN Some(t.filtered_entries[t.selected_index + 1].name)
                         ELSE IF t.query # <<>> THEN Some(t.query) ELSE @,
                       !.should_quit = TRUE]
        [] key = "Esc" -> [t EXCEPT !.should_quit = TRUE]
        [] OTHER -> t
    ELSE
      CASE key = "y" ->
             IF t.selected_index < Len(t.filtered_entries)
             THEN LET entry_name == t.filtered_entries[t.selected_index + 1].name
                  IN IF outcome = "ok"
                     THEN [t EXCEPT !.all_entries = Retain(t.all_entries, entry_name),
                                    !.filtered_entries =
                                       UpdateSearch(Retain(t.all_entries, entry_name), t.query),
                                    !.selected_index = 0,
                                    !.status_message =
                                       Some(<<"Deleted: ">> \o PathDisplay(entry_name)),
                                    !.mode = Normal]
                     ELSE [t EXCEPT !.status_message = Some(<<"Error deleting: ", outcome>>),
                                    !.mode = Normal]
             ELSE [t EXCEPT !.mode = Normal]
        [] key \in {"n", "Esc"} -> [t EXCEPT !.mode = Normal]
        [] key = "CtrlC" -> [t EXCEPT !.should_quit = TRUE]
        [] OTHER -> t

\* Ctrl+C in Normal mode
KeyCtrlC ==
    /\ Running /\ mode = Normal
    /\ should_quit' = TRUE
    /\ last' = [op |-> "CtrlC", rm |-> 0, target |-> None]
    /\ twin' = TwinStep(twin, "CtrlC", "", "ok")
    /\ UNCHANGED <<query, all_entries, filtered_entries, selected_index,
                   final_selection, mode, status_message, editor_cmd, theme, frame, stdout,
                   wants_editor, disk, pc, returned>>

CtrlDModeUnguarded(filtered) == DeleteConfirm

\* Ctrl+D: the mode afterwards
CtrlDMode(filtered) == IF filtered # <<>> THEN DeleteConfirm ELSE mode

\* Ctrl+D in Normal mode
KeyCtrlD ==
    /\ Running /\ mode = Normal
    /\ mode' = CtrlDMode(filtered_entries)
    /\ last' = [op |-> "CtrlD", rm |-> 0, target |-> None]
    /\ twin' = TwinStep(twin, "CtrlD", "", "ok")
    /\ UNCHANGED <<query, all_entries, filtered_entries, selected_index,
                   should_quit, final_selection, status_message, editor_cmd, theme, frame, stdout,
                   wants_editor, disk, pc, returned>>

CtrlEQuitsWithoutEditor(ed, filtered, q) == filtered # <<>> \/ q # <<>>

CtrlEQuitsLikeEnter(ed, filtered, q) == ed # None

\* Ctrl+E: whether the branch taken sets wants_editor and should_quit
CtrlEQuits(ed, filtered, q) == ed # None /\ (filtered # <<>> \/ q # <<>>)

CtrlESelectionListOnly(ed, filtered, idx, q) ==
    IF ed # None /\ filtered # <<>> THEN Some(filtered[idx + 1].name)
    ELSE final_selection

\* Ctrl+E: the value final_selection has afterwards
CtrlESelection(ed, filtered, idx, q) ==
    IF ed # None
    THEN IF filtered # <<>> THEN Some(filtered[idx + 1].name)
         ELSE IF q # <<>> THEN Some(q)
         ELSE final_selection
    ELSE final_selection

\* Ctrl+E in Normal mode
KeyCtrlE ==
    /\ Running /\ mode = Normal
    /\ final_selection' = CtrlESelection(editor_cmd, filtered_entries, selected_index, query)
    /\ wants_editor' = (CtrlEQuits(editor_cmd, filtered_entries, query) \/ wants_editor)
    /\ should_quit' = (CtrlEQuits(editor_cmd, filtered_entries, query) \/ should_quit)
    /\ status_message' = IF editor_cmd # None THEN status_message
                          ELSE Some(<<"No editor configured in config.toml">>)
    /\ last' = [op |-> "CtrlE", rm |-> 0, target |-> None]
    /\ twin' = TwinStep(twin, "CtrlE", "", "ok")
    /\ UNCHANGED <<query, all_entries, filtered_entries, selected_index, mode,
                   editor_cmd, theme, frame, stdout, disk, pc, returned>>

KeyCharKeepsStatus ==
    /\ Running /\ mode = Normal
    /\ Len(query) < MaxQuery
    /\ \E c \in KeyChars, ctrl \in BOOLEAN :
         /\ query' = Append(query, c)
         /\ filtered_entries' = UpdateSearch(all_entries, query')
         /\ selected_index' = 0
         /\ last' = [op |-> IF ctrl THEN "CtrlChar" ELSE "Char", rm |-> 0, target |-> None]
         /\ twin' = TwinStep(twin, "Char", c, "ok")
    /\ UNCHANGED <<all_entries, should_quit, final_selection, mode, editor_cmd, theme, frame, stdout,
                   wants_editor, disk, pc, returned, status_message>>

\* any other KeyCode::Char(c) in Normal mode, with or without modifiers
KeyChar ==
    /\ Running /\ mode = Normal
    /\ Len(query) < MaxQuery
    /\ \E c \in KeyChars, ctrl \in BOOLEAN :
         /\ query' = Append(query, c)
         /\ status_message' = None
         /\ filtered_entries' = UpdateSearch(all_entries, query')
         /\ selected_index' = 0
         /\ last' = [op |-> IF ctrl THEN "CtrlChar" ELSE "Char", rm |-> 0, target |-> None]
         /\ twin' = TwinStep(twin, "Char", c, "ok")
    /\ UNCHANGED <<all_entries, should_quit, final_selection, mode, editor_cmd, theme, frame, stdout,
                   wants_editor, disk, pc, returned>>

KeyBackspaceStaleList ==
    /\ Running /\ mode = Normal
    /\ query' = PopLast(query)
    /\ selected_index' = 0
    /\ last' = [op |-> "Backspace", rm |-> 0, target |-> None]
    /\ twin' = TwinStep(twin, "Backspace", "", "ok")
    /\ UNCHANGED <<all_entries, filtered_entries, status_message, should_quit, final_selection, mode,
                   editor_cmd, theme, frame, stdout, wants_editor, disk, pc, returned>>

KeyBackspaceClearsStatus ==
    /\ Running /\ mode = Normal
    /\ query' = PopLast(query)
    /\ filtered_entries' = UpdateSearch(all_entries, query')
    /\ selected_index' = 0
    /\ status_message' = None
    /\ last' = [op |-> "Backspace", rm |-> 0, target |-> None]
    /\ twin' = TwinStep(twin, "Backspace", "", "ok")
    /\ UNCHANGED <<all_entries, should_quit, final_selection, mode,
                   editor_cmd, theme, frame, stdout, wants_editor, disk, pc, returned>>

\* KeyCode::Backspace
KeyBackspace ==
    /\ Running /\ mode = Normal
    /\ query' = PopLast(query)
    /\ filtered_entries' = UpdateSearch(all_entries, query')
    /\ selected_index' = 0
    /\ last' = [op |-> "Backspace", rm |-> 0, target |-> None]
    /\ twin' = TwinStep(twin, "Backspace", "", "ok")
    /\ UNCHANGED <<all_entries, should_quit, final_selection, mode,
                   status_message, editor_cmd, theme, frame, stdout, wants_editor, disk, pc, returned>>

\* KeyCode::Up
KeyUp ==
    /\ Running /\ mode = Normal
    /\ selected_index' = UpIndex(selected_index)
    /\ last' = [op |-> "Up", rm |-> 0, target |-> None]
    /\ twin' = TwinStep(twin, "Up", "", "ok")
    /\ UNCHANGED <<query, all_entries, filtered_entries, should_quit,
                   final_selection, mode, status_message, editor_cmd, theme, frame, stdout,
                   wants_editor, disk, pc, returned>>

\* KeyCode::Down
KeyDown ==
    /\ Running /\ mode = Normal
    /\ selected_index' = DownIndex(selected_index, Len(filtered_entries))
    /\ last' = [op |-> "Down", rm |-> 0, target |-> None]
    /\ twin' = TwinStep(twin, "Down", "", "ok")
    /\ UNCHANGED <<query, all_entries, filtered_entries, should_quit,
                   final_selection, mode, status_message, editor_cmd, theme, frame, stdout,
                   wants_editor, disk, pc, returned>>

\* KeyCode::Enter
KeyEnter ==
    /\ Running /\ mode = Normal
    /\ final_selection' = EnterSelection(filtered_entries, selected_index, query)
    /\ should_quit' = (EnterQuits(filtered_entries, query) \/ should_quit)
    /\ last' = [op |-> "Enter", rm |-> 0, target |-> None]
    /\ twin' = TwinStep(twin, "Enter", "", "ok")
    /\ UNCHANGED <<query, all_entries, filtered_entries, selected_index, mode,
                   status_message, editor_cmd, theme, frame, stdout, wants_editor, disk, pc, returned>>

KeyEscSelects ==
    /\ Running /\ mode = Normal
    /\ should_quit' = TRUE
    /\ final_selection' = EnterSelection(filtered_entries, selected_index, query)
    /\ last' = [op |-> "Esc", rm |-> 0, target |-> None]
    /\ twin' = TwinStep(twin, "Esc", "", "ok")
    /\ UNCHANGED <<query, all_entries, filtered_entries, selected_index,
                   mode, status_message, editor_cmd, theme, frame, stdout,
                   wants_editor, disk, pc, returned>>

\* KeyCode::Esc in Normal mode
KeyEsc ==
    /\ Running /\ mode = Normal
    /\ should_quit' = TRUE
    /\ last' = [op |-> "Esc", rm |-> 0, target |-> None]
    /\ twin' = TwinStep(twin, "Esc", "", "ok")
    /\ UNCHANGED <<query, all_entries, filtered_entries, selected_index,
                   final_selection, mode, status_message, editor_cmd, theme, frame, stdout,
                   wants_editor, disk, pc, returned>>

\* every other key code in Normal mode (Tab, Left, F1, ...)
KeyOther ==
    /\ Running /\ mode = Normal
    /\ last' = [op |-> "Other", rm |-> 0, target |-> None]
    /\ twin' = TwinStep(twin, "Tab", "", "ok")
    /\ UNCHANGED <<query, all_entries, filtered_entries, selected_index,
                   should_quit, final_selection, mode, status_message,
                   editor_cmd, theme, frame, stdout, wants_editor, disk, pc, returned>>

(* ----------------------- App::delete_selected -------------------------- *)
\* outcomes of fs::remove_dir_all(base_path.join(entry_name))
RemoveOutcomes == {"ok"} \cup IoErrors

DeleteAllIgnoringResult(outcome, entry_name) == Retain(all_entries, entry_name)

DeleteAllByCursor(outcome, entry_name) ==
    IF outcome = "ok"
    THEN [i \in 1..(Len(all_entries) - 1) |->
            IF i < selected_index + 1 THEN all_entries[i] ELSE all_entries[i + 1]]
    ELSE all_entries

\* all_entries after the match on the removal result
DeleteAll(outcome, entry_name) ==
    IF outcome = "ok" THEN Retain(all_entries, entry_name) ELSE all_entries

DeleteStatusNoPath(outcome, entry_name) ==
    IF outcome = "ok" THEN Some(<<"Deleted: ">>)
    ELSE Some(<<"Error deleting: ", outcome>>)

DeleteStatusSilentError(outcome, entry_name) ==
    IF outcome = "ok" THEN Some(<<"Deleted: ">> \o PathDisplay(entry_name))
    ELSE status_message

\* status_message after the match on the removal result
DeleteStatus(outcome, entry_name) ==
    IF outcome = "ok" THEN Some(<<"Deleted: ">> \o PathDisplay(entry_name))
    ELSE Some(<<"Error deleting: ", outcome>>)

DeleteModeOnSuccessOnly(outcome) == IF outcome = "ok" THEN Normal ELSE mode

\* mode after delete_selected
DeleteMode(outcome) == Normal

\* 'y' / 'Y' in DeleteConfirm mode: the whole of delete_selected
ConfirmYes ==
    /\ Running /\ mode = DeleteConfirm
    /\ \E outcome \in RemoveOutcomes :
         IF selected_index < Len(filtered_entries)
         THEN LET entry_name == filtered_entries[selected_index + 1].name
              IN /\ all_entries' = DeleteAll(outcome, entry_name)
                 /\ IF outcome = "ok"
                    THEN /\ filtered_entries' = UpdateSearch(all_entries', query)
                         /\ selected_index' = 0
                         /\ disk' = disk \ {entry_name}
                    ELSE UNCHANGED <<filtered_entries, selected_index, disk>>
                 /\ status_message' = DeleteStatus(outcome, entry_name)
                 /\ mode' = DeleteMode(outcome)
                 /\ last' = [op |-> IF outcome = "ok" THEN "DeleteOk" ELSE "DeleteErr",
                             rm |-> 1, target |-> Some(entry_name)]
                 /\ twin' = TwinStep(twin, "y", "", outcome)
         ELSE /\ mode' = DeleteMode(outcome)
              /\ last' = [op |-> "DeleteNone", rm |-> 0, target |-> None]
              /\ twin' = TwinStep(twin, "y", "", outcome)
              /\ UNCHANGED <<all_entries, filtered_entries, selected_index,
                             disk, status_message>>
    /\ UNCHANGED <<query, should_quit, final_selection, editor_cmd, theme, frame, stdout,
                   wants_editor, pc, returned>>

ConfirmNoResetsView ==
    /\ Running /\ mode = DeleteConfirm
    /\ mode' = Normal
    /\ selected_index' = 0
    /\ status_message' = None
    /\ last' = [op |-> "Decline", rm |-> 0, target |-> None]
    /\ twin' = TwinStep(twin, "n", "", "ok")
    /\ UNCHANGED <<query, all_entries, filtered_entries,
                   should_quit, final_selection, editor_cmd, theme, frame, stdout,
                   wants_editor, disk, pc, returned>>

\* 'n' / 'N' / Esc in DeleteConfirm mode
ConfirmNo ==
    /\ Running /\ mode = DeleteConfirm
    /\ mode' = Normal
    /\ last' = [op |-> "Decline", rm |-> 0, target |-> None]
    /\ twin' = TwinStep(twin, "n", "", "ok")
    /\ UNCHANGED <<query, all_entries, filtered_entries, selected_index,
                   should_quit, final_selection, status_message, editor_cmd, theme, frame, stdout,
                   wants_editor, disk, pc, returned>>

ConfirmCtrlCAsDecline ==
    /\ Running /\ mode = DeleteConfirm
    /\ mode' = Normal
    /\ last' = [op |-> "ConfirmCtrlC", rm |-> 0, target |-> None]
    /\ twin' = TwinStep(twin, "CtrlC", "", "ok")
    /\ UNCHANGED <<query, all_entries, filtered_entries, selected_index,
                   should_quit, final_selection, status_message, editor_cmd, theme, frame, stdout,
                   wants_editor, disk, pc, returned>>

\* Ctrl+C in DeleteConfirm mode
ConfirmCtrlC ==
    /\ Running /\ mode = DeleteConfirm
    /\ should_quit' = TRUE
    /\ last' = [op |-> "ConfirmCtrlC", rm |-> 0, target |-> None]
    /\ twin' = TwinStep(twin, "CtrlC", "", "ok")
    /\ UNCHANGED <<query, all_entries, filtered_entries, selected_index,
                   final_selection, mode, status_message, editor_cmd, theme, frame, stdout,
                   wants_editor, disk, pc, returned>>

ConfirmOtherNavigates ==
    /\ Running /\ mode = DeleteConfirm
    /\ selected_index' = DownIndex(selected_index, Len(filtered_entries))
    /\ last' = [op |-> "ConfirmOther", rm |-> 0, target |-> None]
    /\ twin' = TwinStep(twin, "Tab", "", "ok")
    /\ UNCHANGED <<query, all_entries, filtered_entries, mode,
                   should_quit, final_selection, status_message,
                   editor_cmd, theme, frame, stdout, wants_editor, disk, pc, returned>>

ConfirmOtherCancels ==
    /\ Running /\ mode = DeleteConfirm
    /\ mode' = Normal
    /\ last' = [op |-> "ConfirmOther", rm |-> 0, target |-> None]
    /\ twin' = TwinStep(twin, "Tab", "", "ok")
    /\ UNCHANGED <<query, all_entries, filtered_entries, selected_index,
                   should_quit, final_selection, status_message,
                   editor_cmd, theme, frame, stdout, wants_editor, disk, pc, returned>>

\* every other key in DeleteConfirm mode
ConfirmOther ==
    /\ Running /\ mode = DeleteConfirm
    /\ last' = [op |-> "ConfirmOther", rm |-> 0, target |-> None]
    /\ twin' = TwinStep(twin, "Tab", "", "ok")
    /\ UNCHANGED <<query, all_entries, filtered_entries, selected_index,
                   should_quit, final_selection, mode, status_message,
                   editor_cmd, theme, frame, stdout, wants_editor, disk, pc, returned>>

\* the loop condition fails: run_app returns (final_selection, wants_editor)
Return ==
    /\ pc = "loop" /\ should_quit
    /\ pc' = "done"
    /\ returned' = Some([selection |-> final_selection, editor |-> wants_editor])
    /\ UNCHANGED <<query, all_entries, filtered_entries, selected_index,
                   should_quit, final_selection, mode, status_message,
                   editor_cmd, theme, frame, stdout, wants_editor, disk, last, twin>>

(* ----------------------- run_app: the popup ----------------------------- *)
PopupFirstRow ==
    IF mode = DeleteConfirm /\ selected_index < Len(filtered_entries)
    THEN Some(<<"Delete '">> \o filtered_entries[1].name \o <<"'? (y/n)">>)
    ELSE None

\* the message of the confirmation popup the frame shows, if it shows one
Popup ==
    IF mode = DeleteConfirm /\ selected_index < Len(filtered_entries)
    THEN Some(<<"Delete '">> \o filtered_entries[selected_index + 1].name
                \o <<"'? (y/n)">>)
    ELSE None

(* ----------------------- run_app: the list rows ------------------------- *)
\* number of characters of format!("{:02}", n)
RECURSIVE DecimalWidth(_)
DecimalWidth(n) == IF n < 10 THEN 1 ELSE 1 + DecimalWidth(n \div 10)
TwoDigitWidth(n) == Max(2, DecimalWidth(n))

\* characters of "({:02}d {:02}h {:02}m)": hours and minutes are below 100
date_width(days) == 1 + TwoDigitWidth(days) + 2 + 2 + 2 + 2 + 2
\* two columns for every marker icon shown
markers_width(entry) == 2 * Cardinality(entry.markers)
icon_width == 2
\* characters of the creation date formatted as %Y-%m-%d
created_width == 10

\* String::chars().take(n)
Take(str, n) == SubSeq(str, 1, IF n < Len(str) THEN n ELSE Len(str))

DisplayNameUnmarked(entry_name, available_for_name) ==
    IF Len(entry_name) > available_for_name
    THEN Take(entry_name, available_for_name)
    ELSE entry_name

\* the name as the row shows it
DisplayName(entry_name, available_for_name) ==
    IF Len(entry_name) > available_for_name
    THEN Take(entry_name, SatSub(available_for_name, 3)) \o <<".", ".", ".">>
    ELSE entry_name

\* the row of one entry in a list pane chunk_width columns wide, drawn at
\* time now
RowLayout(chunk_width, now, entry) ==
    LET days == SatSub(now, entry.modified)
        width == SatSub(chunk_width, 5)
        reserved == date_width(days) + markers_width(entry) + icon_width
                      + created_width + 2
        available_for_name == SatSub(width, reserved)
        name_len == Len(entry.name)
    IN [width |-> width,
        reserved |-> reserved,
        available_for_name |-> available_for_name,
        name_len |-> name_len,
        display_name |-> DisplayName(entry.name, available_for_name),
        padding |-> IF name_len > available_for_name THEN 1
                    ELSE SatSub(width, icon_width + created_width + 1 + name_len
                                         + date_width(days) + markers_width(entry))]

\* the rows of the frame drawn in the current state
Rows == [i \in 1..Len(filtered_entries) |->
            RowLayout(frame.width, frame.now, filtered_entries[i])]

\* an Event::Resize: not a key, so the App is untouched and the next frame is
\* drawn at the new width
Resize ==
    /\ Running
    /\ \E w \in 0..MaxWidth : frame' = [frame EXCEPT !.width = w]
    /\ UNCHANGED <<query, all_entries, filtered_entries, selected_index,
                   should_quit, final_selection, mode, status_message,
                   editor_cmd, theme, wants_editor, disk, pc, returned, last,
                   twin, stdout>>

(* --------------------------- main: dispatch ----------------------------- *)
StartsWith(str, prefix) ==
    Len(str) >= Len(prefix) /\ SubSeq(str, 1, Len(prefix)) = prefix
EndsWith(str, suffix) ==
    Len(str) >= Len(suffix)
      /\ SubSeq(str, Len(str) - Len(suffix) + 1, Len(str)) = suffix

is_git_url(str) ==
    \/ StartsWith(str, <<"h", "t", "t", "p", ":", "/", "/">>)
    \/ StartsWith(str, <<"h", "t", "t", "p", "s", ":", "/", "/">>)
    \/ StartsWith(str, <<"g", "i", "t", "@">>)
    \/ StartsWith(str, <<"s", "s", "h", ":", "/", "/">>)

\* str::trim_end_matches: the suffix is removed as often as it occurs
RECURSIVE TrimEndMatches(_, _)
TrimEndMatches(str, suffix) ==
    IF EndsWith(str, suffix)
    THEN TrimEndMatches(SubSeq(str, 1, Len(str) - Len(suffix)), suffix)
    ELSE str

\* rsplit(['/', ':']).next(): what follows the last '/' or ':'
RECURSIVE LastPart(_)
LastPart(str) ==
    IF str = <<>> \/ str[Len(str)] \in {"/", ":"} THEN <<>>
    ELSE Append(LastPart(SubSeq(str, 1, Len(str) - 1)), str[Len(str)])

extract_repo_name(url) ==
    LET last_part == LastPart(TrimEndMatches(url, <<".", "g", "i", "t">>))
    IN IF last_part # <<>> THEN last_part
       ELSE <<"c", "l", "o", "n", "e", "d", "-", "r", "e", "p", "o">>

\* the line println! writes for the directory called folder
CommandLine(open_editor, ed, folder) ==
    IF open_editor /\ ed # None
    THEN <<ed[1], " '">> \o PathDisplay(folder) \o <<"'">>
    ELSE <<"cd '">> \o PathDisplay(folder) \o <<"'">>

DispatchBranchUrlFirst(selection_result, existing) ==
    IF selection_result = None THEN "none"
    ELSE IF is_git_url(selection_result[1]) THEN "clone"
    ELSE IF selection_result[1] \in existing THEN "enter"
    ELSE "create"

\* which case of main handles the selection, existing being the directories
\* present under tries_dir
DispatchBranch(selection_result, existing) ==
    IF selection_result = None THEN "none"
    ELSE IF selection_result[1] \in existing THEN "enter"
    ELSE IF is_git_url(selection_result[1]) THEN "clone"
    ELSE "create"

\* the directory git clone is given as its target
CloneFolder == extract_repo_name(returned[1].selection[1])

\* main after run_app returned (or after a name was given on the command
\* line), up to the point where it exits or starts git clone: outcome is the
\* result of fs::create_dir_all
Dispatch ==
    /\ pc = "done"
    /\ \E outcome \in {"ok", "failed"} :
         LET selection_result == returned[1].selection
             open_editor == returned[1].editor
             branch == DispatchBranch(selection_result, disk)
         IN /\ pc' = IF branch = "clone" THEN "clone" ELSE "exit"
            /\ stdout' = IF branch = "enter" \/ (branch = "create" /\ outcome = "ok")
                         THEN Append(stdout, CommandLine(open_editor, editor_cmd,
                                                         selection_result[1]))
                         ELSE stdout
            /\ disk' = IF branch = "create" /\ outcome = "ok"
                       THEN disk \cup {selection_result[1]}
                       ELSE disk
            /\ last' = [op |-> CASE branch = "none" -> "DispatchNone"
                                 [] branch = "enter" -> "DispatchEnter"
                                 [] branch = "clone" -> "DispatchCloneStart"
                                 [] OTHER ->
                                      IF outcome = "ok" THEN "DispatchCreate"
                                      ELSE "DispatchCreateFailed",
                        rm |-> 0, target |-> None]
    /\ UNCHANGED <<query, all_entries, filtered_entries, selected_index,
                   should_quit, final_selection, mode, status_message,
                   editor_cmd, theme, wants_editor, returned, twin, frame>>

\* the git child creates its target directory while main waits for it in
\* Command::status
GitCloneWrites ==
    /\ pc = "clone"
    /\ CloneFolder \notin disk
    /\ pc' = "cloning"
    /\ disk' = disk \cup {CloneFolder}
    /\ UNCHANGED <<query, all_entries, filtered_entries, selected_index,
                   should_quit, final_selection, mode, status_message,
                   editor_cmd, theme, wants_editor, returned, twin, frame,
                   stdout, last>>

\* Command::status returns: the line is printed only for exit status 0, which
\* git gives only with the directory in place; a failing git leaves the
\* directory as it is ("failed") or removes the one it created ("cleaned")
CloneDone ==
    /\ pc \in {"clone", "cloning"}
    /\ pc' = "exit"
    /\ \E outcome \in {"ok", "failed", "cleaned"} :
         /\ outcome = "ok" => CloneFolder \in disk
         /\ outcome = "cleaned" => pc = "cloning"
         /\ stdout' = IF outcome = "ok"
                      THEN Append(stdout, CommandLine(returned[1].editor, editor_cmd,
                                                      CloneFolder))
                      ELSE stdout
         /\ disk' = IF outcome = "cleaned" THEN disk \ {CloneFolder} ELSE disk
         /\ last' = [op |-> IF outcome = "ok" THEN "DispatchClone"
                            ELSE "DispatchCloneFailed",
                     rm |-> 0, target |-> None]
    /\ UNCHANGED <<query, all_entries, filtered_entries, selected_index,
                   should_quit, final_selection, mode, status_message,
                   editor_cmd, theme, wants_editor, returned, twin, frame>>

\* names given on the command line (cli.name_or_url), and the directories
\* that can be present under tries_dir then
GitSsh == <<"g", "i", "t", "@", "h", ":", "r", ".", "g", "i", "t">>
CliArgs == { <<"a", "b">>, GitSsh, <<"g", "i", "t", "@", "h", ":">> }
CliDisks == SUBSET { <<"a", "b">>, GitSsh, <<"r">> }

\* main with a name on the command line: no App is built and run_app is
\* skipped, selection_result is the argument and open_editor is false
InitCli ==
    \E arg \in CliArgs, existing \in CliDisks, ed \in EditorCmds :
        /\ frame = DefaultFrame
        /\ stdout = <<>>
        /\ all_entries = <<>>
        /\ filtered_entries = <<>>
        /\ disk = existing
        /\ query = <<>>
        /\ selected_index = 0
        /\ should_quit = FALSE
        /\ final_selection = None
        /\ mode = Normal
        /\ status_message = None
        /\ editor_cmd = ed
        /\ wants_editor = FALSE
        /\ pc = "done"
        /\ returned = Some([selection |-> Some(arg), editor |-> FALSE])
        /\ last = [op |-> "cli", rm |-> 0, target |-> None]
        /\ theme = "default"
        /\ twin = [query |-> <<>>, all_entries |-> <<>>, filtered_entries |-> <<>>,
                   selected_index |-> 0, should_quit |-> FALSE,
                   final_selection |-> None, mode |-> Normal,
                   status_message |-> None, editor_cmd |-> ed,
                   wants_editor |-> FALSE, theme |-> "default"]

\* main: without a name on the command line it builds its App and runs the
\* TUI, with one it goes straight to the dispatch
InitMain == MainAppNew(Scans, {DefaultFrame}) \/ InitCli

Next ==
    \/ KeyCtrlC \/ KeyCtrlD \/ KeyCtrlE \/ KeyChar \/ KeyBackspace
    \/ KeyUp \/ KeyDown \/ KeyEnter \/ KeyEsc \/ KeyOther
    \/ ConfirmYes \/ ConfirmNo \/ ConfirmCtrlC \/ ConfirmOther
    \/ Return

\* main: the TUI, then the dispatch
NextMain == Next \/ Dispatch \/ GitCloneWrites \/ CloneDone

Spec == Init /\ [][Next]_vars

SpecScenario == InitScenario /\ [][Next]_vars

SpecMatch == InitMatch /\ [][Next]_vars

SpecMain == InitMain /\ [][NextMain]_vars

\* the frames drawn while the terminal is resized
NextRow == Resize

SpecRow == InitRow /\ [][NextRow]_vars

TypeOK ==
    /\ Len(query) <= MaxQuery
    /\ mode \in {Normal, DeleteConfirm}
    /\ should_quit \in BOOLEAN /\ wants_editor \in BOOLEAN
    /\ selected_index \in Nat
    /\ pc \in {"loop", "done", "clone", "cloning", "exit"}
    /\ frame.width \in 0..MaxWidth
    /\ Len(stdout) <= 1

(* ============================== claims ================================= *)
\* part occurs in msg as a contiguous run
Contains(msg, part) ==
    \E k \in 1..(Len(msg) - Len(part) + 1) : SubSeq(msg, k, k + Len(part) - 1) = part

\* the characters of q occur in name, in order, under the character relation Eq
OccursInOrder(q, name, Eq(_, _)) ==
    \E f \in [1..Len(q) -> 1..Len(name)] :
        /\ \A i, j \in 1..Len(q) : i < j => f[i] < f[j]
        /\ \A i \in 1..Len(q) : Eq(name[f[i]], q[i])

SameChar(a, b) == a = b

\* C1: whenever filtered_entries is non-empty the cursor is inside it:
\* 0 <= selected_index < len(filtered_entries), after any sequence of keys.
C1_CursorInRange ==
    filtered_entries # <<>> =>
        (0 <= selected_index /\ selected_index < Len(filtered_entries))

\* cursor-down pressed while the cursor is on the last of several rows
C1_Witness ==
    /\ last.op = "Down"
    /\ Len(filtered_entries) >= 2
    /\ selected_index = Len(filtered_entries) - 1

\* C2: Enter in Normal mode with a non-empty filtered list sets the result to
\* the name at the cursor (not the raw query), leaves wants_editor false and
\* sets should_quit.
C2_EnterSelectsCursor ==
    (last.op = "Enter" /\ filtered_entries # <<>>) =>
        /\ final_selection = Some(filtered_entries[selected_index + 1].name)
        /\ wants_editor = FALSE
        /\ should_quit

\* Enter pressed on a filtered row whose name differs from the typed query
C2_Witness ==
    /\ last.op = "Enter"
    /\ filtered_entries # <<>>
    /\ query # <<>>
    /\ final_selection = Some(filtered_entries[selected_index + 1].name)
    /\ final_selection # Some(query)
    /\ should_quit

\* C3: Enter in Normal mode with an empty filtered list and a non-empty query
\* ends the loop with the result (query, false).
C3_EnterCreatesFromQuery ==
    (last.op = "Enter" /\ filtered_entries = <<>> /\ query # <<>>) =>
        /\ should_quit
        /\ final_selection = Some(query)
        /\ wants_editor = FALSE
        /\ (pc = "done" =>
              returned = Some([selection |-> Some(query), editor |-> FALSE]))

\* no directories at all, a query typed, Enter pressed, run_app returned
C3_Witness ==
    /\ pc = "done"
    /\ last.op = "Enter"
    /\ all_entries = <<>>
    /\ query # <<>>
    /\ returned = Some([selection |-> Some(query), editor |-> FALSE])

\* C4 as stated: Enter in Normal mode with an empty filtered list and an empty
\* query is a no-op: should_quit stays false, mode stays Normal, no result.
C4_Original ==
    (last.op = "Enter" /\ filtered_entries = <<>> /\ query = <<>>) =>
        /\ ~should_quit
        /\ mode = Normal
        /\ final_selection = None

\* C4 amended: Enter in Normal mode with an empty filtered list and an empty
\* query sets no result and keeps the mode Normal, but it does set
\* should_quit, so the loop returns (None, false).
C4_EnterEmptyQuits ==
    (last.op = "Enter" /\ filtered_entries = <<>> /\ query = <<>>) =>
        /\ should_quit
        /\ mode = Normal
        /\ final_selection = None
        /\ wants_editor = FALSE
        /\ (pc = "done" => returned = Some([selection |-> None, editor |-> FALSE]))

\* Enter pressed with nothing listed and nothing typed, and run_app returned
C4_Witness ==
    /\ last.op = "Enter"
    /\ filtered_entries = <<>>
    /\ query = <<>>
    /\ pc = "done"
    /\ returned = Some([selection |-> None, editor |-> FALSE])

\* C5: affirm in DeleteConfirm with a successful removal removes exactly the
\* entry named at the cursor from all_entries, rebuilds filtered_entries by
\* ranking the remaining entries against the unchanged query (so its names are
\* names of all_entries), and sets a success status containing the path.
C5_DeleteSuccess ==
    [][(Running /\ mode = DeleteConfirm /\ last'.op = "DeleteOk") =>
         LET entry_name == filtered_entries[selected_index + 1].name
         IN /\ Len(all_entries') = Len(all_entries) - 1
            /\ Names(all_entries') = Names(all_entries) \ {entry_name}
            /\ entry_name \in Names(all_entries)
            /\ \A i, j \in 1..Len(all_entries) :
                 (i < j /\ all_entries[i].name # entry_name
                        /\ all_entries[j].name # entry_name) =>
                   \E k, l \in 1..Len(all_entries') :
                      k < l /\ all_entries'[k] = all_entries[i]
                            /\ all_entries'[l] = all_entries[j]
            /\ query' = query
            /\ filtered_entries' = UpdateSearch(all_entries', query)
            /\ Names(filtered_entries') \subseteq Names(all_entries')
            /\ status_message' # None
            /\ status_message'[1][1] = "Deleted: "
            /\ Contains(status_message'[1], PathDisplay(entry_name))
            /\ entry_name \notin disk'
      ]_vars

\* a successful deletion under an active query that still lists something
C5_Witness ==
    /\ last.op = "DeleteOk"
    /\ query # <<>>
    /\ filtered_entries # <<>>
    /\ status_message # None
    /\ status_message[1][1] = "Deleted: "

\* C6: affirm in DeleteConfirm with a failing removal leaves all_entries
\* unchanged, sets a non-empty failure status containing the error
\* description, returns to Normal, and calls the removal once (no retry).
C6_DeleteFailure ==
    [][(Running /\ mode = DeleteConfirm /\ last'.op = "DeleteErr") =>
         /\ all_entries' = all_entries
         /\ disk' = disk
         /\ status_message' # None
         /\ status_message'[1] # <<>>
         /\ status_message'[1][1] = "Error deleting: "
         /\ \E e \in IoErrors : Contains(status_message'[1], <<e>>)
         /\ mode' = Normal
         /\ last'.rm = 1
      ]_vars

\* a deletion that failed
C6_Witness ==
    /\ last.op = "DeleteErr"
    /\ mode = Normal
    /\ all_entries # <<>>
    /\ \E e \in IoErrors : status_message = Some(<<"Error deleting: ", e>>)

\* C7: affirm in DeleteConfirm always ends in Normal mode with should_quit
\* unchanged: removal succeeded, removal failed, or no entry at the cursor.
C7_AffirmReturnsToNormal ==
    [][(Running /\ mode = DeleteConfirm
          /\ last'.op \in {"DeleteOk", "DeleteErr", "DeleteNone"}) =>
         (mode' = Normal /\ should_quit' = should_quit)
      ]_vars

\* affirm was pressed and the removal failed
C7_Witness ==
    /\ last.op = "DeleteErr"
    /\ mode = Normal
    /\ ~should_quit
    /\ pc = "loop"

\* C8: with an empty query the ranking step is the identity: filtered_entries
\* is all_entries, same elements in the same order.
C8_EmptyQueryIdentity ==
    query = <<>> => filtered_entries = all_entries

\* the query was emptied again by backspace over several directories
C8_Witness ==
    /\ last.op = "Backspace"
    /\ query = <<>>
    /\ Len(all_entries) >= 2
    /\ filtered_entries = all_entries

\* C9 as stated: for a non-empty query an entry is listed iff the characters
\* of the query occur in its name as an ordered subsequence.
C9_Original ==
    query # <<>> =>
        \A i \in 1..Len(all_entries) :
            (all_entries[i].name \in Names(filtered_entries))
              <=> OccursInOrder(query, all_entries[i].name, SameChar)

\* C10: ranking is idempotent: ranking the ranked and filtered list again
\* with the same query gives the same entries in the same order.
C10_RankIdempotent ==
    UpdateSearch(filtered_entries, query) = filtered_entries

\* a non-empty query under which two listed entries have equal scores
C10_Witness ==
    /\ query # <<>>
    /\ Len(filtered_entries) >= 2
    /\ filtered_entries[1].score = filtered_entries[2].score

\* position of the entry called name in entries (names are unique)
IndexOfName(entries, name) ==
    CHOOSE i \in 1..Len(entries) : entries[i].name = name

\* C11: for a non-empty query filtered_entries is ordered by non-increasing
\* score, and entries with equal scores keep their relative order from
\* all_entries.
C11_SortedByScoreStable ==
    query # <<>> =>
        \A i, j \in 1..Len(filtered_entries) :
            i < j =>
              /\ filtered_entries[i].score >= filtered_entries[j].score
              /\ (filtered_entries[i].score = filtered_entries[j].score =>
                    IndexOfName(all_entries, filtered_entries[i].name)
                      < IndexOfName(all_entries, filtered_entries[j].name))

\* three listed entries: the first two tie, the third scores lower, and the
\* ranking moved an entry relative to all_entries
C11_Witness ==
    /\ query # <<>>
    /\ Len(filtered_entries) = 3
    /\ filtered_entries[1].score = filtered_entries[2].score
    /\ filtered_entries[2].score > filtered_entries[3].score
    /\ NameSeq(filtered_entries) # NameSeq(all_entries)

\* C12: the delete combo in Normal mode switches to DeleteConfirm if
\* filtered_entries is non-empty and otherwise changes nothing.
C12_DeleteCombo ==
    [][(Running /\ mode = Normal /\ last'.op = "CtrlD") =>
         /\ mode' = IF filtered_entries # <<>> THEN DeleteConfirm ELSE Normal
         /\ UNCHANGED <<query, selected_index, all_entries, filtered_entries,
                        status_message, should_quit, final_selection,
                        wants_editor, disk>>
      ]_vars

\* the delete combo pressed while the query matches nothing
C12_Witness ==
    /\ last.op = "CtrlD"
    /\ filtered_entries = <<>>
    /\ all_entries # <<>>
    /\ mode = Normal
    /\ ~should_quit

\* C13: the edit combo in Normal mode with no editor configured sets an
\* explanatory status, keeps the mode Normal, does not set should_quit and
\* sets no result.
C13_EditWithoutEditor ==
    [][(Running /\ mode = Normal /\ editor_cmd = None /\ last'.op = "CtrlE") =>
         /\ status_message' = Some(<<"No editor configured in config.toml">>)
         /\ mode' = Normal
         /\ should_quit' = FALSE
         /\ final_selection' = None
         /\ wants_editor' = FALSE
         /\ pc' = "loop"
      ]_vars

\* the edit combo pressed on a listed entry without an editor command
C13_Witness ==
    /\ last.op = "CtrlE"
    /\ editor_cmd = None
    /\ filtered_entries # <<>>
    /\ status_message = Some(<<"No editor configured in config.toml">>)
    /\ ~should_quit

\* C14 as stated: with an editor configured the edit combo selects the result
\* as confirm does, with open-in-editor true, and sets should_quit in exactly
\* the states in which confirm sets it.
C14_Original ==
    [][(Running /\ mode = Normal /\ editor_cmd # None /\ last'.op = "CtrlE") =>
         /\ final_selection' = EnterSelection(filtered_entries, selected_index, query)
         /\ (final_selection' # None => wants_editor')
         /\ should_quit' = EnterQuits(filtered_entries, query)
      ]_vars

\* C14 amended: with an editor configured the edit combo selects the result
\* as confirm does, with open-in-editor true, and sets should_quit exactly
\* when it selects a result; with an empty list and an empty query it changes
\* nothing, whereas confirm quits there.
C14_EditLikeConfirm ==
    [][(Running /\ mode = Normal /\ editor_cmd # None /\ last'.op = "CtrlE") =>
         /\ final_selection' = EnterSelection(filtered_entries, selected_index, query)
         /\ wants_editor' = (final_selection' # None)
         /\ should_quit' = (filtered_entries # <<>> \/ query # <<>>)
         /\ should_quit' = (final_selection' # None)
         /\ ((filtered_entries = <<>> /\ query = <<>>) =>
               UNCHANGED <<query, all_entries, filtered_entries, selected_index,
                           should_quit, final_selection, mode, status_message,
                           wants_editor, disk, pc>>)
      ]_vars

\* the edit combo pressed with an editor configured, nothing listed and a
\* query typed
C14_Witness ==
    /\ last.op = "CtrlE"
    /\ editor_cmd # None
    /\ filtered_entries = <<>>
    /\ query # <<>>
    /\ final_selection = Some(query)
    /\ wants_editor
    /\ should_quit

\* C15: the quit combo, in Normal and in DeleteConfirm mode, sets should_quit
\* with no result: the loop returns (None, false) and nothing is removed.
C15_QuitCombo ==
    (last.op \in {"CtrlC", "ConfirmCtrlC"}) =>
        /\ should_quit
        /\ final_selection = None
        /\ wants_editor = FALSE
        /\ last.rm = 0
        /\ (pc = "done" => returned = Some([selection |-> None, editor |-> FALSE]))

\* the quit combo pressed in the confirmation dialog, and run_app returned
C15_Witness ==
    /\ last.op = "ConfirmCtrlC"
    /\ mode = DeleteConfirm
    /\ pc = "done"
    /\ returned = Some([selection |-> None, editor |-> FALSE])
    /\ Names(all_entries) = disk

\* C16: Escape in Normal mode sets should_quit with no result, whatever the
\* query, the cursor and the filtered list are.
C16_Escape ==
    last.op = "Esc" =>
        /\ should_quit
        /\ final_selection = None
        /\ wants_editor = FALSE
        /\ (pc = "done" => returned = Some([selection |-> None, editor |-> FALSE]))

\* Escape pressed with a query typed and the cursor on a lower row
C16_Witness ==
    /\ last.op = "Esc"
    /\ query # <<>>
    /\ filtered_entries # <<>>
    /\ selected_index > 0
    /\ pc = "done"

\* C17: decline or Escape in DeleteConfirm mode returns to Normal and changes
\* nothing else.
C17_Decline ==
    [][(Running /\ mode = DeleteConfirm /\ last'.op = "Decline") =>
         /\ mode' = Normal
         /\ UNCHANGED <<all_entries, filtered_entries, query, selected_index,
                        status_message, should_quit, disk, final_selection,
                        wants_editor>>
      ]_vars

\* declined with the cursor on a lower row and a status message on display
C17_Witness ==
    /\ last.op = "Decline"
    /\ mode = Normal
    /\ selected_index > 0
    /\ status_message # None

\* C18: in DeleteConfirm mode every other input is ignored: the whole state,
\* the mode included, is unchanged.
C18_ConfirmIgnoresOthers ==
    [][(Running /\ mode = DeleteConfirm /\ last'.op = "ConfirmOther") =>
         UNCHANGED <<query, all_entries, filtered_entries, selected_index,
                     should_quit, final_selection, mode, status_message,
                     editor_cmd, theme, frame, stdout, wants_editor, disk, pc, returned>>
      ]_vars

\* an ignored key in the confirmation dialog
C18_Witness ==
    /\ last.op = "ConfirmOther"
    /\ mode = DeleteConfirm
    /\ ~should_quit

\* C19: typing a character in Normal mode appends it to the query, clears the
\* status, recomputes filtered_entries from all_entries and the new query,
\* and resets the cursor to 0.
C19_TypeCharacter ==
    [][(Running /\ mode = Normal /\ last'.op = "Char") =>
         /\ \E c \in KeyChars : query' = Append(query, c)
         /\ status_message' = None
         /\ filtered_entries' = UpdateSearch(all_entries, query')
         /\ selected_index' = 0
         /\ all_entries' = all_entries
      ]_vars

\* a character typed that narrowed the list
C19_Witness ==
    /\ last.op = "Char"
    /\ query # <<>>
    /\ filtered_entries # <<>>
    /\ Len(filtered_entries) < Len(all_entries)
    /\ selected_index = 0
    /\ status_message = None

\* C20: backspace removes the last query character (an empty query stays
\* empty), recomputes filtered_entries and resets the cursor to 0; typing a
\* character and then pressing backspace restores filtered_entries.
C20_Backspace ==
    /\ [][(Running /\ mode = Normal /\ last'.op = "Backspace") =>
            /\ query' = IF query = <<>> THEN <<>>
                        ELSE SubSeq(query, 1, Len(query) - 1)
            /\ filtered_entries' = UpdateSearch(all_entries, query')
            /\ selected_index' = 0
         ]_vars
    /\ [](\A c \in KeyChars :
            UpdateSearch(all_entries, PopLast(Append(query, c))) = filtered_entries)

\* backspace pressed on a query of two characters
C20_Witness ==
    /\ last.op = "Backspace"
    /\ Len(query) = MaxQuery - 1
    /\ filtered_entries # <<>>
    /\ Len(filtered_entries) < Len(all_entries)

\* C21 as stated: a status message is absent after the next query edit,
\* whether the edit appends a character or is a backspace.
C21_Original ==
    [][(Running /\ mode = Normal
          /\ last'.op \in {"Char", "CtrlChar", "Backspace"}) =>
         status_message' = None
      ]_vars

\* C21: a status message set by an earlier action is absent after the next
\* query edit that appends a character; a backspace leaves the status message
\* as it was.
C21_StatusClearedByChar ==
    [][(Running /\ mode = Normal) =>
         /\ last'.op \in {"Char", "CtrlChar"} => status_message' = None
         /\ last'.op = "Backspace" => status_message' = status_message
      ]_vars

\* a backspace pressed while a status message was showing
C21_Witness ==
    /\ last.op = "Backspace"
    /\ status_message # None
    /\ mode = Normal
    /\ pc = "loop"

\* C22: in Normal mode cursor-up decrements the cursor by one unless it is 0,
\* cursor-down increments it by one unless it is on the last row or the list
\* is empty; neither changes the query, the lists, the mode or the status.
C22_CursorKeys ==
    [][(Running /\ mode = Normal /\ last'.op \in {"Up", "Down"}) =>
         /\ last'.op = "Up" =>
              selected_index' = IF selected_index = 0 THEN 0
                                ELSE selected_index - 1
         /\ last'.op = "Down" =>
              selected_index' = IF filtered_entries = <<>>
                                     \/ selected_index = Len(filtered_entries) - 1
                                THEN selected_index
                                ELSE selected_index + 1
         /\ UNCHANGED <<query, all_entries, filtered_entries, mode,
                        status_message>>
      ]_vars

\* cursor-up pressed on the third row of a list
C22_Witness ==
    /\ last.op = "Up"
    /\ selected_index = 1
    /\ Len(filtered_entries) >= 3
    /\ pc = "loop"

\* C23: when the event loop has terminated, the value returned is the
\* selection with the open-in-editor flag, and the flag is never set when
\* there is no selection.
C23_ReturnValue ==
    /\ pc = "done" =>
         /\ returned = Some([selection |-> final_selection,
                             editor |-> wants_editor])
         /\ final_selection = None => ~wants_editor
    /\ wants_editor => final_selection # None

\* the loop returned a name taken from the query, to be opened in the editor
C23_Witness ==
    /\ pc = "done"
    /\ returned # None
    /\ returned[1].editor
    /\ returned[1].selection = Some(query)
    /\ query # <<>>

\* entries is ordered by non-increasing modification time
SortedByModifiedDescending(entries) ==
    \A i, j \in 1..Len(entries) :
        i < j => entries[i].modified >= entries[j].modified

\* C24: after the scan, with an empty query, all_entries and filtered_entries
\* are both ordered by descending modification time; alpha (t=100) and beta
\* (t=200) are ordered beta, alpha.
C24_ScanOrder ==
    /\ SortedByModifiedDescending(all_entries)
    /\ query = <<>> => SortedByModifiedDescending(filtered_entries)
    /\ last.op = "new" => filtered_entries = all_entries
    /\ NameSeq(SortByModified(
           << [name |-> <<"a", "l", "p", "h", "a">>, modified |-> 100,
               score |-> 0, markers |-> {}],
              [name |-> <<"b", "e", "t", "a">>, modified |-> 200,
               score |-> 0, markers |-> {}] >>))
         = << <<"b", "e", "t", "a">>, <<"a", "l", "p", "h", "a">> >>

\* a scan that found directories of three different ages
C24_Witness ==
    /\ last.op = "new"
    /\ query = <<>>
    /\ Len(all_entries) = 3
    /\ all_entries[1].modified > all_entries[2].modified
    /\ all_entries[2].modified > all_entries[3].modified
    /\ filtered_entries = all_entries

\* C25 as stated: for entries alpha, abc, zzz and the query "ab", the filtered
\* result contains alpha and abc, excludes zzz, and abc is at or above alpha.
C25_Original ==
    (query = <<"a", "b">> /\ last.op = "Char"
       /\ Names(all_entries) = {d.name : d \in ScenarioPool}) =>
        /\ <<"a", "l", "p", "h", "a">> \in Names(filtered_entries)
        /\ <<"a", "b", "c">> \in Names(filtered_entries)
        /\ <<"z", "z", "z">> \notin Names(filtered_entries)
        /\ IndexOfName(filtered_entries, <<"a", "b", "c">>)
             <= IndexOfName(filtered_entries, <<"a", "l", "p", "h", "a">>)

\* C25: for entries alpha, abc, zzz and the query "ab", the filtered result
\* is abc alone: alpha, which has no b, and zzz are excluded.
C25_ScenarioAb ==
    (query = <<"a", "b">> /\ last.op = "Char"
       /\ Names(all_entries) = {d.name : d \in ScenarioPool}) =>
        /\ NameSeq(filtered_entries) = << <<"a", "b", "c">> >>
        /\ <<"a", "l", "p", "h", "a">> \notin Names(filtered_entries)
        /\ <<"z", "z", "z">> \notin Names(filtered_entries)

\* "ab" typed over the three entries alpha, abc, zzz
C25_Witness ==
    /\ query = <<"a", "b">>
    /\ last.op = "Char"
    /\ Names(all_entries) = {d.name : d \in ScenarioPool}
    /\ Len(filtered_entries) = 1

\* C26: all_entries changes only through a confirmed deletion whose removal
\* succeeded, which removes the one entry under the cursor and keeps the
\* order of the others; no entry is ever added after the scan.
C26_AllEntriesFrame ==
    [][/\ all_entries' # all_entries =>
            /\ Running /\ mode = DeleteConfirm
            /\ last'.op = "DeleteOk"
            /\ all_entries' =
                 Retain(all_entries, filtered_entries[selected_index + 1].name)
            /\ Len(all_entries') = Len(all_entries) - 1
       /\ Names(all_entries') \subseteq Names(all_entries)
       /\ last'.op \notin {"DeleteOk", "new"} => all_entries' = all_entries
      ]_vars

\* a removal that failed, with all three entries still in place
C26_Witness ==
    /\ last.op = "DeleteErr"
    /\ Len(all_entries) = 3
    /\ disk = Names(all_entries)
    /\ query # <<>>

\* C27 as stated: a character pressed with Control that is not the quit,
\* delete or edit combo leaves the query and filtered_entries unchanged.
C27_Original ==
    [][(Running /\ mode = Normal /\ last'.op = "CtrlChar") =>
         UNCHANGED <<query, filtered_entries>>
      ]_vars

\* C28: project markers and the theme never influence the state machine: a
\* second run that differs only in markers and theme and receives the same
\* inputs has the same query, filtered names and order, cursor, mode,
\* should_quit and result after every step.
C28_MarkersThemeCosmetic ==
    /\ twin.query = query
    /\ NameSeq(twin.all_entries) = NameSeq(all_entries)
    /\ NameSeq(twin.filtered_entries) = NameSeq(filtered_entries)
    /\ twin.selected_index = selected_index
    /\ twin.mode = mode
    /\ twin.should_quit = should_quit
    /\ twin.final_selection = final_selection
    /\ twin.wants_editor = wants_editor
    /\ twin.status_message = status_message

\* two runs with different markers and themes that ranked two entries and
\* selected the second one
C28_Witness ==
    /\ should_quit
    /\ query # <<>>
    /\ Len(filtered_entries) >= 2
    /\ selected_index = 1
    /\ final_selection = Some(filtered_entries[2].name)
    /\ twin.theme # theme
    /\ \E i \in 1..Len(filtered_entries) :
          twin.filtered_entries[i].markers # filtered_entries[i].markers

\* C29: entry names stay unique in every reachable state: no two entries of
\* all_entries share a name and no two entries of filtered_entries share one.
C29_UniqueNames ==
    /\ \A i, j \in 1..Len(all_entries) :
          all_entries[i].name = all_entries[j].name => i = j
    /\ \A i, j \in 1..Len(filtered_entries) :
          filtered_entries[i].name = filtered_entries[j].name => i = j

\* a deletion under a non-empty query that left two matching entries
C29_Witness ==
    /\ last.op = "DeleteOk"
    /\ query # <<>>
    /\ Len(filtered_entries) = 2
    /\ Len(all_entries) = 2
    /\ disk = Names(all_entries)

\* C30: the confirmation popup is shown exactly when the mode is
\* DeleteConfirm, and the entry it names is the entry whose directory an
\* immediately following affirm attempts to remove.
C30_PopupNamesTarget ==
    /\ [](Running => (Popup # None <=> mode = DeleteConfirm))
    /\ [][(Running /\ mode = DeleteConfirm
             /\ last'.op \in {"DeleteOk", "DeleteErr", "DeleteNone"}) =>
            /\ last'.rm = 1
            /\ last'.target # None
            /\ Popup = Some(<<"Delete '">> \o last'.target[1] \o <<"'? (y/n)">>)
         ]_vars

\* an affirm on the second row whose removal failed: the popup named that row
C30_Witness ==
    /\ last.op = "DeleteErr"
    /\ selected_index = 1
    /\ Len(filtered_entries) >= 2
    /\ last.target = Some(filtered_entries[2].name)
    /\ mode = Normal

\* C31 as stated: in every row of every frame, a name longer than the space
\* available for it is displayed ending with the truncation marker and no
\* longer than that available space.
C31_Original ==
    \A i \in 1..Len(filtered_entries) :
        Rows[i].name_len > Rows[i].available_for_name =>
            /\ EndsWith(Rows[i].display_name, <<".", ".", ".">>)
            /\ Len(Rows[i].display_name) <= Rows[i].available_for_name

\* the command line main prints to enter the directory called folder
CdLine(folder) == <<"cd '", base_path, "/">> \o folder \o <<"'">>
\* the command line main prints to open the directory called folder
EditorLine(folder) == <<editor_cmd[1], " '", base_path, "/">> \o folder \o <<"'">>

\* C32: the dispatch step prints at most one command line: none without a
\* selection; for an existing directory the editor command if open-in-editor
\* is set and else a cd command, also when the selection looks like a git
\* URL; otherwise it clones (git URL) or creates the directory, and prints
\* no command when the clone fails.
C32_DispatchPrintsOnce ==
    /\ [](Len(stdout) <= 1 /\ (pc # "exit" => stdout = <<>>))
    /\ [][(pc = "done" /\ pc' # "done") =>
            LET sel == returned[1].selection
                line(folder) == IF returned[1].editor THEN EditorLine(folder)
                                ELSE CdLine(folder)
            IN IF sel = None THEN pc' = "exit" /\ stdout' = <<>> /\ disk' = disk
               ELSE IF sel[1] \in disk
                    THEN pc' = "exit" /\ stdout' = <<line(sel[1])>> /\ disk' = disk
               ELSE IF is_git_url(sel[1])
                    THEN pc' = "clone" /\ stdout' = <<>> /\ disk' = disk
               ELSE /\ pc' = "exit"
                    /\ \/ /\ last'.op = "DispatchCreateFailed"
                          /\ stdout' = <<>>
                       \/ /\ last'.op = "DispatchCreate"
                          /\ stdout' = <<line(sel[1])>>
                          /\ disk' = disk \cup {sel[1]}
         ]_vars
    /\ [][(pc \in {"clone", "cloning"} /\ pc' # pc) =>
            LET folder == extract_repo_name(returned[1].selection[1])
            IN \/ /\ pc' = "cloning"
                  /\ stdout' = <<>>
               \/ /\ pc' = "exit"
                  /\ last'.op = "DispatchCloneFailed"
                  /\ stdout' = <<>>
               \/ /\ pc' = "exit"
                  /\ last'.op = "DispatchClone"
                  /\ folder \in disk'
                  /\ stdout' = << IF returned[1].editor THEN EditorLine(folder)
                                  ELSE CdLine(folder) >>
         ]_vars

\* a git URL given on the command line that names an existing directory: one
\* cd line, no clone
C32_Witness ==
    /\ pc = "exit"
    /\ last.op = "DispatchEnter"
    /\ returned = Some([selection |-> Some(GitSsh), editor |-> FALSE])
    /\ stdout = << CdLine(GitSsh) >>

\* C33: once should_quit is true it is never reset, and the only step before
\* returning is the return itself: no key is handled, nothing is deleted and
\* the result does not change after the step that set should_quit.
C33_QuitIsFinal ==
    [][should_quit =>
         /\ should_quit'
         /\ UNCHANGED <<query, all_entries, filtered_entries, selected_index,
                        mode, status_message, final_selection, wants_editor>>
         /\ disk \subseteq disk'
         /\ pc = "loop" => (pc' = "done" /\ disk' = disk
                              /\ returned' = Some([selection |-> final_selection,
                                                   editor |-> wants_editor]))
      ]_vars

\* the loop returned after Ctrl+C in the confirmation dialog, with the entry
\* still listed and on disk
C33_Witness ==
    /\ should_quit
    /\ pc = "done"
    /\ mode = DeleteConfirm
    /\ last.op = "ConfirmCtrlC"
    /\ final_selection = None
    /\ disk = Names(all_entries)
    /\ filtered_entries # <<>>

\* C34: in every reachable state filtered_entries is the ranking of the
\* current all_entries against the current query (same names, same order),
\* and every name in filtered_entries is a name in all_entries.
C34_FilteredIsRanking ==
    /\ NameSeq(filtered_entries) = NameSeq(UpdateSearch(all_entries, query))
    /\ Names(filtered_entries) \subseteq Names(all_entries)

\* a failed deletion under a query that hides some entries
C34_Witness ==
    /\ last.op = "DeleteErr"
    /\ query # <<>>
    /\ filtered_entries # <<>>
    /\ Len(filtered_entries) < Len(all_entries)
    /\ pc = "loop"

\* C35: whenever the mode is DeleteConfirm, filtered_entries is non-empty and
\* the cursor indexes an entry of it, so affirm always resolves a target.
C35_ConfirmHasTarget ==
    /\ [](mode = DeleteConfirm =>
            /\ filtered_entries # <<>>
            /\ selected_index < Len(filtered_entries))
    /\ [][(Running /\ mode = DeleteConfirm
             /\ last'.op \in {"DeleteOk", "DeleteErr", "DeleteNone"}) =>
            /\ last'.op # "DeleteNone"
            /\ last'.target \in {Some(n) : n \in Names(filtered_entries)}
         ]_vars

\* the confirmation dialog opened on the last row of a filtered list
C35_Witness ==
    /\ mode = DeleteConfirm
    /\ last.op = "CtrlD"
    /\ query # <<>>
    /\ Len(filtered_entries) >= 2
    /\ selected_index = Len(filtered_entries) - 1

\* C36: while the mode is DeleteConfirm the query and the cursor (and the
\* list) change only through affirm, so the entry affirm acts on is the
\* entry highlighted when the dialog opened.
C36_ConfirmFreezesView ==
    /\ [][(mode = DeleteConfirm
             /\ last'.op \notin {"DeleteOk", "DeleteErr", "DeleteNone"}) =>
            UNCHANGED <<query, selected_index, filtered_entries, all_entries>>
         ]_vars
    /\ [][(mode = DeleteConfirm /\ mode' = DeleteConfirm) =>
            (Popup' = Popup /\ UNCHANGED <<query, selected_index>>)
         ]_vars
    /\ [][(Running /\ mode = Normal /\ mode' = DeleteConfirm) =>
            UNCHANGED <<query, selected_index, filtered_entries>>
         ]_vars

\* a key ignored by the dialog that was opened on the second row
C36_Witness ==
    /\ last.op = "ConfirmOther"
    /\ mode = DeleteConfirm
    /\ selected_index = 1
    /\ query # <<>>
    /\ Popup = Some(<<"Delete '">> \o filtered_entries[2].name \o <<"'? (y/n)">>)

\* C37: a failed deletion leaves filtered_entries, the cursor and the query
\* unchanged, so the same entry stays highlighted; only the status message
\* and the mode change.
C37_FailedDeleteKeepsView ==
    [][(Running /\ mode = DeleteConfirm /\ last'.op = "DeleteErr") =>
         /\ UNCHANGED <<filtered_entries, selected_index, query, all_entries,
                        disk, should_quit, final_selection, wants_editor,
                        editor_cmd, pc, returned>>
         /\ mode' = Normal
         /\ \E e \in IoErrors : status_message' = Some(<<"Error deleting: ", e>>)
         /\ last'.target = Some(filtered_entries'[selected_index' + 1].name)
      ]_vars

\* a failed deletion on the second row that replaced an earlier message
C37_Witness ==
    /\ last.op = "DeleteErr"
    /\ selected_index = 1
    /\ query = <<>>
    /\ Len(filtered_entries) = 2
    /\ Len(all_entries) = 2
    /\ Cardinality(disk) = 2
    /\ status_message # None

\* C38: a successful deletion leaves the query unchanged, resets the cursor
\* to 0, and the deleted name no longer occurs in all_entries or in
\* filtered_entries.
C38_DeleteRemovesName ==
    [][(Running /\ mode = DeleteConfirm /\ last'.op = "DeleteOk") =>
         /\ query' = query
         /\ selected_index' = 0
         /\ last'.target # None
         /\ last'.target[1] \in Names(filtered_entries)
         /\ last'.target[1] \notin Names(all_entries')
         /\ last'.target[1] \notin Names(filtered_entries')
      ]_vars

\* the second of three matching entries was deleted
C38_Witness ==
    /\ last.op = "DeleteOk"
    /\ query # <<>>
    /\ selected_index = 0
    /\ Len(filtered_entries) = 2
    /\ Len(all_entries) = 2
    /\ last.target[1] \notin Names(all_entries)
    /\ Cardinality(disk) = 2
    /\ status_message # None
    /\ mode = Normal

\* C39: the result name is never empty and the result is set only in the
\* step that sets should_quit: a present result implies should_quit, and the
\* result is the name of an entry of filtered_entries or the non-empty query.
C39_ResultWellFormed ==
    /\ [](final_selection # None =>
            /\ should_quit
            /\ final_selection[1] # <<>>
            /\ \/ final_selection[1] \in Names(filtered_entries)
               \/ final_selection[1] = query /\ query # <<>>)
    /\ [][final_selection' # final_selection =>
            (~should_quit /\ should_quit' /\ final_selection = None)
         ]_vars

\* Enter on an empty list with a non-empty query, returned without editor
C39_Witness ==
    /\ final_selection # None
    /\ last.op = "Enter"
    /\ filtered_entries = <<>>
    /\ all_entries # <<>>
    /\ final_selection = Some(query)
    /\ ~wants_editor
    /\ pc = "loop"

\* C40: the open-in-editor flag is true only if an editor command is
\* configured, so when the dispatch step is asked to open an editor the line
\* it prints is the editor command, never cd.
C40_EditorFlagNeedsCommand ==
    /\ wants_editor => editor_cmd # None
    /\ (returned # None /\ returned[1].editor) => editor_cmd # None
    /\ (pc = "exit" /\ returned[1].editor /\ stdout # <<>>) =>
          /\ stdout[1][1] = editor_cmd[1]
          /\ stdout[1][1] # "cd '"

\* Ctrl+E on a query that matches nothing: the directory was created and the
\* editor command printed
C40_Witness ==
    /\ pc = "exit"
    /\ last.op = "DispatchCreate"
    /\ returned[1].editor
    /\ returned[1].selection = Some(query)
    /\ stdout = << <<"code", " '", base_path, "/">> \o query \o <<"'">> >>
====
